---- MODULE Spec2Model ----
(***************************************************************************)
(* A model of mreiferson/go-simplelog, src/simplelog.go.                   *)
(*                                                                         *)
(* The source file holds three revisions of the package, one after the     *)
(* other:                                                                  *)
(*   "v1"  lines   1-123   SetLevel(interface{}), Log with inline switch   *)
(*   "v2"  lines 124-273   adds istty / isatty / parseLevel                *)
(*   "v3"  lines 274-391   SetLevel(int), Logger.Debug/Info/Warning/Error  *)
(* A build contains exactly one of them; `variant` says which.             *)
(*                                                                         *)
(* Strings whose characters matter (level names) are sequences of          *)
(* one-character strings; an output line is the sequence of the pieces     *)
(* fmt.Fprintf concatenates, the empty string being the empty sequence.    *)
(***************************************************************************)
EXTENDS Integers, Sequences, FiniteSets, TLC

\* ------------------------------------------------------------------ bounds
NumThreads == 2          \* goroutines calling into the package
MaxCalls == 2            \* Log calls begun in one behaviour
MaxSets == 1             \* SetLevel calls begun in one behaviour

Threads == 1..NumThreads

\* --------------------------------------------------------------- constants
DEBUG == 0
INFO == 1
WARNING == 2
ERROR == 3

red == "ESC[0;31;49m"
green == "ESC[0;32;49m"
yellow == "ESC[0;33;49m"
blue == "ESC[0;34;49m"
reset == "ESC[0m"

Variants == {"v1", "v2", "v3"}

\* the shared default logger and one logger made by NewLogger
Loggers == {"defaultLogger", "l1"}

\* ------------------------------------------------------------------ inputs
\* integers handed to SetLevel / NewLogger, and levels handed to Log
IntLevels == {-1, 99}
LogLevels == {DEBUG, INFO, WARNING, ERROR, 4}

LevelStrings ==
    { <<"D","E","B","U","G">>, <<"I","n","f","o">>,
      <<"W","a","R","n","I","n","G">>, <<"e","r","r","o","r">>,
      <<>>, <<"w","a","r","n">>, <<"e","r","r","o","r"," ">> }

\* the dynamic argument of SetLevel(lvl interface{}): an int, a string, or
\* a value of any other type
IntArg(n) == [type |-> "int", n |-> n, s |-> <<>>]
StringArg(s) == [type |-> "string", n |-> 0, s |-> s]
OtherArg == [type |-> "other", n |-> 0, s |-> <<>>]
NoArg == [type |-> "none", n |-> 0, s |-> <<>>]

VARIABLES
    variant,     \* which revision of simplelog.go is built
    istty,       \* var istty bool (v2); no such flag in v1 and v3
    level,       \* level[l]: Logger.level
    mu,          \* mu[l]: the goroutines holding the embedded sync.Mutex
    pc,          \* pc[t]: where goroutine t is
    cur,         \* cur[t]: the call goroutine t is in
    ret,         \* ret[t]: what the last SetLevel call reported to t
    stderr,      \* the chunks written to os.Stderr, in order
    ncalls,      \* Log calls begun
    nsets        \* SetLevel calls begun

vars == <<variant, istty, level, mu, pc, cur, ret, stderr, ncalls, nsets>>

NoCall == [fn |-> "none", lg |-> "defaultLogger", level |-> 0, id |-> 0,
           arg |-> NoArg]

\* ------------------------------------------------------- pure functions
UpperAZ == <<"A","B","C","D","E","F","G","H","I","J","K","L","M",
             "N","O","P","Q","R","S","T","U","V","W","X","Y","Z">>
LowerAZ == <<"a","b","c","d","e","f","g","h","i","j","k","l","m",
             "n","o","p","q","r","s","t","u","v","w","x","y","z">>

\* strings.ToLower on one character
ToLowerRune(c) ==
    IF \E i \in 1..Len(UpperAZ) : UpperAZ[i] = c
    THEN LowerAZ[CHOOSE i \in 1..Len(UpperAZ) : UpperAZ[i] = c]
    ELSE c

\* strings.ToLower left out: the name is compared as given
ToLower_AsGiven(s) == s

\* strings.ToLower
ToLower(s) == [i \in 1..Len(s) |-> ToLowerRune(s[i])]

\* the inner switch of SetLevel on the lower-cased name: the levels the
\* name stands for (none in the default branch)
NameLevel(name) ==
    CASE name = <<"d","e","b","u","g">> -> {DEBUG}
      [] name = <<"i","n","f","o">> -> {INFO}
      [] name = <<"w","a","r","n","i","n","g">> -> {WARNING}
      [] name = <<"e","r","r","o","r">> -> {ERROR}
      [] OTHER -> {}

\* Logger.SetLevel(lvl interface{}) error of v1 and v2: the new l.level and
\* the error returned, from the old l.level and the argument
SetLevelDyn(old, arg) ==
    CASE arg.type = "int" -> [level |-> arg.n, err |-> "nil"]
      [] arg.type = "string" ->
            IF NameLevel(ToLower(arg.s)) # {}
            THEN [level |-> CHOOSE n \in NameLevel(ToLower(arg.s)) : TRUE,
                  err |-> "nil"]
            ELSE [level |-> old, err |-> "invalid level"]
      [] OTHER -> [level |-> old, err |-> "invalid level"]

\* Logger.SetLevel(level int) of v3: no result
SetLevelInt(old, arg) == [level |-> arg.n, err |-> "void"]

\* parseLevel of v2: <<colour, label>>
parseLevel(lv) ==
    CASE lv = DEBUG -> <<blue, "DEBUG">>
      [] lv = INFO -> <<green, "INFO">>
      [] lv = WARNING -> <<yellow, "WARNING">>
      [] lv = ERROR -> <<red, "ERROR">>
      [] OTHER -> <<green, "INFO">>

\* the switch inside Log of v1 and v3: color and levelTxt keep their zero
\* value "" when no case matches
levelSwitch(lv) ==
    CASE lv = DEBUG -> <<blue, "DEBUG">>
      [] lv = INFO -> <<green, "INFO">>
      [] lv = WARNING -> <<yellow, "WARNING">>
      [] lv = ERROR -> <<red, "ERROR">>
      [] OTHER -> <<"", "">>

\* a Go string as the sequence of its pieces: "" is the empty sequence
S(str) == IF str = "" THEN <<>> ELSE <<str>>

\* isatty(f): false unless GOOS is darwin or linux, else whether the
\* TIOCGPGRP ioctl on the descriptor succeeded
GoOS == {"darwin", "linux", "windows"}
isatty(goos, errnoZero) ==
    IF goos \notin {"darwin", "linux"} THEN FALSE ELSE errnoZero

\* the level test of Log: TRUE when the line is to be written
Passes(v, lv, thr) ==
    IF v = "v3" THEN thr >= lv ELSE lv >= thr

\* prefix and postfix of the line
Prefix(v, tty, lv) ==
    IF v = "v2" THEN (IF tty THEN S(parseLevel(lv)[1]) ELSE <<>>)
    ELSE S(levelSwitch(lv)[1])
Postfix(v, tty) ==
    IF v = "v2" THEN (IF tty THEN S(reset) ELSE <<>>) ELSE S(reset)
LevelTxt(v, lv) ==
    IF v = "v2" THEN S(parseLevel(lv)[2]) ELSE S(levelSwitch(lv)[2])

\* fmt.Sprintf(s, args...) for the one call shape used here: the message
\* "worker %d" with the number of the call as its argument
LogMsg(id) == <<"worker ", ToString(id)>>

\* the two pieces of fmt.Fprintf(os.Stderr, "%s[%s %s] %s%s\n", prefix,
\* levelTxt, dateTime, logMsg, postfix) as they reach the descriptor
LineHead(v, tty, lv) ==
    Prefix(v, tty, lv) \o <<"[">> \o LevelTxt(v, lv) \o <<" ", "dateTime", "] ">>
LineTail(v, tty, id) == LogMsg(id) \o Postfix(v, tty) \o <<"\n">>

\* ------------------------------------------------------------------- init
\* func init(); `l1` is NewLogger(n) for some n
Init ==
    /\ variant \in Variants
    /\ \E goos \in GoOS, errnoZero \in BOOLEAN :
          istty = IF variant = "v2" THEN isatty(goos, errnoZero) ELSE FALSE
    /\ \E n \in IntLevels :
          level = [l \in Loggers |-> IF l = "defaultLogger" THEN INFO ELSE n]
    /\ mu = [l \in Loggers |-> {}]
    /\ pc = [t \in Threads |-> "idle"]
    /\ cur = [t \in Threads |-> NoCall]
    /\ ret = [t \in Threads |-> "none"]
    /\ stderr = <<>>
    /\ ncalls = 0
    /\ nsets = 0

\* ---------------------------------------------------------------- actions
Lg(t) == cur[t].lg

\* the arguments a caller can hand to SetLevel in this revision
SetLevelArgs ==
    IF variant = "v3" THEN {IntArg(n) : n \in IntLevels}
    ELSE {IntArg(n) : n \in IntLevels} \cup {StringArg(s) : s \in LevelStrings}
         \cup {OtherArg}

\* goroutine t calls l.SetLevel(arg)
CallSetLevel(t, l, arg) ==
    /\ pc[t] = "idle"
    /\ nsets < MaxSets
    /\ arg \in SetLevelArgs
    /\ pc' = [pc EXCEPT ![t] = "SetLevel"]
    /\ cur' = [cur EXCEPT ![t] = [NoCall EXCEPT !.fn = "Logger.SetLevel",
                                                !.lg = l, !.arg = arg]]
    /\ ret' = [ret EXCEPT ![t] = "none"]
    /\ nsets' = nsets + 1
    /\ UNCHANGED <<variant, istty, level, mu, stderr, ncalls>>

\* goroutine t calls the package-level SetLevel(arg)
CallPkgSetLevel(t, arg) ==
    /\ pc[t] = "idle"
    /\ nsets < MaxSets
    /\ arg \in SetLevelArgs
    /\ pc' = [pc EXCEPT ![t] = "SetLevel"]
    /\ cur' = [cur EXCEPT ![t] = [NoCall EXCEPT !.fn = "SetLevel",
                                                !.lg = "defaultLogger",
                                                !.arg = arg]]
    /\ ret' = [ret EXCEPT ![t] = "none"]
    /\ nsets' = nsets + 1
    /\ UNCHANGED <<variant, istty, level, mu, stderr, ncalls>>

\* what the caller of fn gets back when the method returned err: the
\* package-level SetLevel has no result and drops the method's
Reported(fn, err) == IF fn = "SetLevel" THEN "void" ELSE err

\* the body of Logger.SetLevel runs: no lock is taken
SetLevel(t) ==
    /\ pc[t] = "SetLevel"
    /\ LET r == IF variant = "v3" THEN SetLevelInt(level[Lg(t)], cur[t].arg)
                ELSE SetLevelDyn(level[Lg(t)], cur[t].arg)
       IN /\ level' = [level EXCEPT ![Lg(t)] = r.level]
          /\ ret' = [ret EXCEPT ![t] = Reported(cur[t].fn, r.err)]
    /\ pc' = [pc EXCEPT ![t] = "idle"]
    /\ cur' = [cur EXCEPT ![t] = NoCall]
    /\ UNCHANGED <<variant, istty, mu, stderr, ncalls, nsets>>

\* goroutine t enters l.Log(lv, "worker %d", id)
EnterLog(t, l, lv) ==
    /\ pc[t] = "idle"
    /\ ncalls < MaxCalls
    /\ ncalls' = ncalls + 1
    /\ pc' = [pc EXCEPT ![t] = "Lock"]
    /\ cur' = [cur EXCEPT ![t] = [NoCall EXCEPT !.fn = "Log", !.lg = l,
                                                !.level = lv,
                                                !.id = ncalls + 1]]
    /\ ret' = [ret EXCEPT ![t] = "none"]
    /\ UNCHANGED <<variant, istty, level, mu, stderr, nsets>>

\* l.Log(lv, ...) called directly
CallLog(t, l, lv) == EnterLog(t, l, lv)

\* the package-level forwarders to defaultLogger
PkgLog(t, lv) == EnterLog(t, "defaultLogger", lv)
PkgDebug(t) == EnterLog(t, "defaultLogger", DEBUG)
PkgInfo(t) == EnterLog(t, "defaultLogger", INFO)
PkgWarning(t) == EnterLog(t, "defaultLogger", WARNING)
PkgError(t) == EnterLog(t, "defaultLogger", ERROR)

\* l.Debug / l.Info / l.Warning / l.Error, methods of v3 only
MethodLevel(t, l, lv) ==
    /\ variant = "v3"
    /\ lv \in {DEBUG, INFO, WARNING, ERROR}
    /\ EnterLog(t, l, lv)

\* Log without l.Lock(): the critical section is entered at once
Lock_NotTaken(t) ==
    /\ pc[t] = "Lock"
    /\ mu' = [mu EXCEPT ![Lg(t)] = @ \cup {t}]
    /\ pc' = [pc EXCEPT ![t] =
                 IF Passes(variant, cur[t].level, level[Lg(t)])
                 THEN "Write" ELSE "Return"]
    /\ UNCHANGED <<variant, istty, level, cur, ret, stderr, ncalls, nsets>>

\* l.Lock(), then the level test: l.level is read once under the lock and
\* a suppressed level returns early
Lock(t) ==
    /\ pc[t] = "Lock"
    /\ mu[Lg(t)] = {}
    /\ mu' = [mu EXCEPT ![Lg(t)] = {t}]
    /\ pc' = [pc EXCEPT ![t] =
                 IF Passes(variant, cur[t].level, level[Lg(t)])
                 THEN "Write" ELSE "Return"]
    /\ UNCHANGED <<variant, istty, level, cur, ret, stderr, ncalls, nsets>>

\* one write reaching the descriptor: the bytes, with the call and the
\* logger they come from and which piece of the line they are
Chunk(t, part, text) ==
    [id |-> cur[t].id, lg |-> Lg(t), part |-> part, text |-> text]

\* the line is formatted and its first bytes reach the descriptor
Write(t) ==
    /\ pc[t] = "Write"
    /\ stderr' = Append(stderr, Chunk(t, "head", LineHead(variant, istty, cur[t].level)))
    /\ pc' = [pc EXCEPT ![t] = "WriteTail"]
    /\ UNCHANGED <<variant, istty, level, mu, cur, ret, ncalls, nsets>>

\* the rest of the line, newline included, reaches the descriptor
WriteTail(t) ==
    /\ pc[t] = "WriteTail"
    /\ stderr' = Append(stderr, Chunk(t, "tail", LineTail(variant, istty, cur[t].id)))
    /\ pc' = [pc EXCEPT ![t] = "Unlock"]
    /\ UNCHANGED <<variant, istty, level, mu, cur, ret, ncalls, nsets>>

\* an Unlock written at the end of Log instead of deferred: the early
\* return of a suppressed level leaves the lock held
Unlock_NotDeferred(t) ==
    /\ pc[t] \in {"Unlock", "Return"}
    /\ mu' = [mu EXCEPT ![Lg(t)] = IF pc[t] = "Return" THEN @ ELSE @ \ {t}]
    /\ pc' = [pc EXCEPT ![t] = "idle"]
    /\ cur' = [cur EXCEPT ![t] = NoCall]
    /\ UNCHANGED <<variant, istty, level, ret, stderr, ncalls, nsets>>

\* the deferred l.Unlock(), and the return
Unlock(t) ==
    /\ pc[t] \in {"Unlock", "Return"}
    /\ mu' = [mu EXCEPT ![Lg(t)] = @ \ {t}]
    /\ pc' = [pc EXCEPT ![t] = "idle"]
    /\ cur' = [cur EXCEPT ![t] = NoCall]
    /\ UNCHANGED <<variant, istty, level, ret, stderr, ncalls, nsets>>

Next ==
    \E t \in Threads :
        \/ \E l \in Loggers, arg \in SetLevelArgs : CallSetLevel(t, l, arg)
        \/ \E arg \in SetLevelArgs : CallPkgSetLevel(t, arg)
        \/ SetLevel(t)
        \/ \E l \in Loggers, lv \in LogLevels : CallLog(t, l, lv)
        \/ \E lv \in LogLevels : PkgLog(t, lv)
        \/ PkgDebug(t)
        \/ PkgInfo(t)
        \/ PkgWarning(t)
        \/ PkgError(t)
        \/ \E l \in Loggers, lv \in LogLevels : MethodLevel(t, l, lv)
        \/ Lock(t)
        \/ Write(t)
        \/ WriteTail(t)
        \/ Unlock(t)

Spec == Init /\ [][Next]_vars

\* SetLevel alone: the calls of SetLevel and its body
NextSetLevel ==
    \E t \in Threads :
        \/ \E l \in Loggers, arg \in SetLevelArgs : CallSetLevel(t, l, arg)
        \/ \E arg \in SetLevelArgs : CallPkgSetLevel(t, arg)
        \/ SetLevel(t)

SetLevelSpec == Init /\ [][NextSetLevel]_vars

\* Log alone: goroutines calling Log, through any of its entry points, on
\* either logger at any level
NextLog ==
    \E t \in Threads :
        \/ \E l \in Loggers, lv \in LogLevels : CallLog(t, l, lv)
        \/ \E lv \in LogLevels : PkgLog(t, lv)
        \/ PkgDebug(t)
        \/ PkgInfo(t)
        \/ PkgWarning(t)
        \/ PkgError(t)
        \/ \E l \in Loggers, lv \in LogLevels : MethodLevel(t, l, lv)
        \/ Lock(t)
        \/ Write(t)
        \/ WriteTail(t)
        \/ Unlock(t)

LogSpec == Init /\ [][NextLog]_vars

\* a goroutine that is running keeps running, and sync.Mutex hands the lock
\* to a goroutine that keeps asking for it
Fairness ==
    \A t \in Threads :
        /\ WF_vars(Write(t) \/ WriteTail(t) \/ Unlock(t))
        /\ SF_vars(Lock(t))

\* Log under fair scheduling, at one level below and one level above the
\* default threshold, so that both the early return and the write happen
FairLevels == {DEBUG, ERROR}
NextFairLog ==
    \E t \in Threads :
        \/ \E l \in Loggers, lv \in FairLevels : CallLog(t, l, lv)
        \/ Lock(t)
        \/ Write(t)
        \/ WriteTail(t)
        \/ Unlock(t)

FairLogSpec == Init /\ [][NextFairLog]_vars /\ Fairness

\* ======================================================== claim formulas
Named == {DEBUG, INFO, WARNING, ERROR}
Ansi == {red, green, yellow, blue, reset}
InLog(t) == pc[t] \in {"Lock", "Write", "WriteTail", "Unlock", "Return"}
Holding(t) == pc[t] \in {"Write", "WriteTail", "Unlock", "Return"}
\* the chunks of call id, and of logger l, in the order written
ChunksOf(id) == SelectSeq(stderr, LAMBDA c : c.id = id)
Through(l) == SelectSeq(stderr, LAMBDA c : c.lg = l)
\* call id has exactly one complete line on the stream
OneLine(id) ==
    /\ Len(ChunksOf(id)) = 2
    /\ ChunksOf(id)[1].part = "head"
    /\ ChunksOf(id)[2].part = "tail"
\* the colour the interface gives a named level
ColourOf(lv) ==
    CASE lv = DEBUG -> blue [] lv = INFO -> green
      [] lv = WARNING -> yellow [] lv = ERROR -> red
\* s equals the lower-case name up to the case of its letters
FoldEq(s, name) ==
    /\ Len(s) = Len(name)
    /\ \A i \in 1..Len(s) :
          \/ s[i] = name[i]
          \/ \E k \in 1..Len(UpperAZ) : UpperAZ[k] = s[i] /\ LowerAZ[k] = name[i]
Returns(t) == pc[t] = "SetLevel" /\ pc'[t] = "idle"
Tests(t) == pc[t] = "Lock" /\ pc'[t] # "Lock"
LastChunk == stderr'[Len(stderr')]
\* the build is one of the revisions vs
Built(vs) == variant \in vs

\* C1: Log(L, ...) on a logger whose threshold is T writes exactly one line
\* when L >= T and nothing when L < T.
C1_OneLineIffAtLeastThreshold ==
    [][Built({"v2", "v3"}) => \A t \in Threads :
          /\ Tests(t) =>
                (pc'[t] = "Write" <=> cur[t].level >= level[Lg(t)])
          /\ (pc[t] = "Unlock" /\ pc'[t] = "idle") => OneLine(cur[t].id)
          /\ (pc[t] = "Return" /\ pc'[t] = "idle") => Len(ChunksOf(cur[t].id)) = 0
      ]_vars

\* C2: SetLevel with a string equal, up to case, to "debug", "info",
\* "warning" or "error" sets the threshold to 0, 1, 2 or 3 and returns no
\* error; with any other string it returns the invalid-level error and the
\* threshold is what it was.
C2_SetLevelString ==
    [][\A t \in Threads :
          (Returns(t) /\ cur[t].arg.type = "string") =>
             LET a == cur[t].arg.s
                 l == Lg(t)
                 method == cur[t].fn = "Logger.SetLevel"
                 set(n) == level'[l] = n /\ (method => ret'[t] = "nil")
             IN  IF FoldEq(a, <<"d","e","b","u","g">>) THEN set(0)
                 ELSE IF FoldEq(a, <<"i","n","f","o">>) THEN set(1)
                 ELSE IF FoldEq(a, <<"w","a","r","n","i","n","g">>) THEN set(2)
                 ELSE IF FoldEq(a, <<"e","r","r","o","r">>) THEN set(3)
                 ELSE /\ level'[l] = level[l]
                      /\ method => ret'[t] = "invalid level"
      ]_vars

\* a mixed-case name was accepted, or a string was refused
C2_Witness ==
    \E t \in Threads :
        /\ pc[t] = "idle"
        /\ \/ ret[t] = "nil" /\ level["l1"] = WARNING
           \/ ret[t] = "invalid level" /\ level["l1"] # WARNING

\* C3: goroutines calling Log concurrently on one Logger never overlap
\* their writes: the chunks written through a logger are complete lines,
\* head then tail of the same call, one line per call that was not
\* suppressed.
C3_NoInterleavingPerLogger ==
    /\ \A t, u \in Threads :
          (t # u /\ Holding(t) /\ Holding(u)) => Lg(t) # Lg(u)
    /\ \A l \in Loggers :
          LET q == Through(l) IN
          \A i \in 1..Len(q) :
             IF i % 2 = 1
             THEN /\ q[i].part = "head"
                  /\ \/ i < Len(q)
                     \/ \E t \in Threads : pc[t] = "WriteTail" /\ cur[t].id = q[i].id
             ELSE q[i].part = "tail" /\ q[i].id = q[i-1].id
    /\ \A t \in Threads : pc[t] = "Unlock" => OneLine(cur[t].id)
    /\ \A i, j \in 1..Len(stderr) :
          (stderr[i].id = stderr[j].id /\ stderr[i].part = stderr[j].part) => i = j

\* one goroutine is in the middle of its line while another waits for the
\* same logger
C3_Witness ==
    \E t, u \in Threads :
        /\ t # u
        /\ pc[t] = "WriteTail"
        /\ pc[u] = "Lock"
        /\ Lg(t) = Lg(u)

\* C4: lines written through two distinct Logger instances to the same
\* stream never overlap.
C4_NoInterleavingAcrossLoggers ==
    Built({"v2"}) => \A i \in 1..Len(stderr) :
        (stderr[i].part = "head" /\ i < Len(stderr)) =>
            stderr[i+1].id = stderr[i].id

\* C5: the package-level SetLevel is the method on defaultLogger: same
\* threshold, same outcome reported to the caller, the invalid-level error
\* included.
C5_PackageSetLevelIsMethod ==
    [][Built({"v2"}) => \A t \in Threads :
          (Returns(t) /\ cur[t].fn = "SetLevel") =>
             LET r == SetLevelDyn(level["defaultLogger"], cur[t].arg)
             IN  /\ level'["defaultLogger"] = r.level
                 /\ (ret'[t] = "invalid level") <=> (r.err = "invalid level")
      ]_vars

\* C6: without the terminal flag a line holds no ANSI sequence; with it the
\* line begins with the colour of its level and ends with the reset code
\* before the newline.
C6_ColourOnlyOnTerminal ==
    [][Built({"v1", "v2"}) => \A t \in Threads :
          /\ (pc[t] = "Write" /\ pc'[t] = "WriteTail") =>
                /\ ~istty => \A i \in 1..Len(LastChunk.text) :
                                 LastChunk.text[i] \notin Ansi
                /\ (istty /\ cur[t].level \in Named) =>
                      LastChunk.text[1] = ColourOf(cur[t].level)
          /\ (pc[t] = "WriteTail" /\ pc'[t] = "Unlock") =>
                LET x == LastChunk.text IN
                /\ ~istty => \A i \in 1..Len(x) : x[i] \notin Ansi
                /\ istty => x[Len(x) - 1] = reset /\ x[Len(x)] = "\n"
      ]_vars

\* C7: SetLevel with an integer stores it verbatim and reports no error;
\* with the threshold 99 Log writes nothing at any named level, with the
\* threshold -1 it writes a line at each.
C7_IntegerThresholdVerbatim ==
    [][Built({"v2", "v3"}) => \A t \in Threads :
          /\ (Returns(t) /\ cur[t].arg.type = "int") =>
                /\ level'[Lg(t)] = cur[t].arg.n
                /\ ret'[t] # "invalid level"
          /\ (Tests(t) /\ cur[t].level \in Named /\ level[Lg(t)] = 99) =>
                pc'[t] = "Return"
          /\ (Tests(t) /\ cur[t].level \in Named /\ level[Lg(t)] = -1) =>
                pc'[t] = "Write"
      ]_vars

\* C8: a Log call at a level that is none of the four named ones, and not
\* below the threshold, writes a line with the INFO label and, where colour
\* is written, the INFO colour.
C8_UnknownLevelAsInfo ==
    [][Built({"v1", "v2"}) => \A t \in Threads :
          /\ (Tests(t) /\ cur[t].level \notin Named
                /\ cur[t].level >= level[Lg(t)]) => pc'[t] = "Write"
          /\ (pc[t] = "Write" /\ pc'[t] = "WriteTail"
                /\ cur[t].level \notin Named) =>
                /\ \E i \in 1..Len(LastChunk.text) : LastChunk.text[i] = "INFO"
                /\ (variant = "v1" \/ istty) => LastChunk.text[1] = green
      ]_vars

\* C9: SetLevel writes the threshold under the logger's lock: never while
\* another goroutine is inside the critical section of Log on that logger.
C9_SetLevelUnderLock ==
    [][Built({"v2"}) => \A t \in Threads : Returns(t) => mu[Lg(t)] = {}]_vars

\* C10: Log releases the lock on every exit path: with no Log call in
\* progress on a logger its lock is free, and every Log call gets the lock
\* and returns.
C10_LockAlwaysReleased ==
    /\ [](\A l \in Loggers :
             (\A t \in Threads : ~(InLog(t) /\ Lg(t) = l)) => mu[l] = {})
    /\ \A t \in Threads : (pc[t] = "Lock") ~> (pc[t] = "idle")

\* a suppressed call is about to return holding the lock another goroutine
\* waits for
C10_Witness ==
    \E t, u \in Threads :
        /\ pc[t] = "Return"
        /\ pc[u] = "Lock"
        /\ Lg(t) = Lg(u)
        /\ mu[Lg(t)] = {t}

====
